---------------------------- MODULE Spec2Model ----------------------------
(***************************************************************************)
(* Model of the audio trimmer (AudioTrimmerApp / AudioTrimmer component).  *)
(*                                                                         *)
(* Time is counted in ticks; MinRange ticks are the 0.1 s of the source,   *)
(* so one second is TicksPerSecond = 10 * MinRange ticks.  Pixel and time  *)
(* comparisons are cross-multiplied so that no rounding is introduced.     *)
(* A state of the model is the React state after an event handler (one     *)
(* task of the event loop) has run and its updates are committed; the      *)
(* await inside handleTrim is one further step (a microtask, which runs    *)
(* before any other event handler).                                        *)
(***************************************************************************)
EXTENDS Integers, Sequences, FiniteSets, TLC

VARIABLES
    audioBuffer,    \* AudioTrimmerApp state: id of the decoded buffer, "none" = null
    fileName,       \* AudioTrimmerApp state: name of the file, "none" = null
    pending,        \* files whose decodeAudioData promise is still pending
    trimStart,      \* AudioTrimmer state (ticks)
    trimEnd,        \* AudioTrimmer state (ticks)
    isTrimming,     \* AudioTrimmer state: busy flag
    isDragging,     \* AudioTrimmer state
    activeHandle,   \* AudioTrimmer state: "start" | "end" | "none"
    hoveredHandle,  \* AudioTrimmer state: "start" | "end" | "none"
    pc,             \* position of the handleTrim call: "idle" | "awaiting"
    trimmedBuffer,  \* handleTrim local: the buffer handed to audioBufferToWav
    wavPromise,     \* handleTrim local: the promise awaited at line 222
    emitted,        \* the artifact downloaded by the step just taken (<<>> = none)
    lastOp,         \* name of the handler step just taken
    clientWidth,    \* containerRef.clientWidth, which canvas.width is set to
    envelope,       \* the min/max columns drawWaveform last drew on the canvas
    moveListeners,  \* window "mousemove" listeners (handleMouseMove instances)
    upListeners     \* window "mouseup" listeners

vars == <<audioBuffer, fileName, pending, trimStart, trimEnd, isTrimming,
          isDragging, activeHandle, hoveredHandle, pc, trimmedBuffer,
          wavPromise, emitted, lastOp, clientWidth, envelope, moveListeners,
          upListeners>>

trimmerVars == <<trimStart, trimEnd, isTrimming, isDragging, activeHandle,
                 hoveredHandle>>

---------------------------------------------------------------------------
(* Bounds and program constants *)

CanvasWidth == 24       \* canvas.width in pixels

SampleScale == 5        \* samples are the fractions k / SampleScale

Tolerance == 10         \* hit-test tolerance in pixels

MinRange == 2           \* the 0.1 s of the drag clamp, in ticks

TicksPerSecond == 10 * MinRange

Abs(n) == IF n < 0 THEN -n ELSE n

Max2(a, b) == IF a >= b THEN a ELSE b

Min2(a, b) == IF a <= b THEN a ELSE b

---------------------------------------------------------------------------
(* The files the user can pick and what the decoder makes of them *)

GoodFiles == {"A", "B"}

BadFiles == {"bad"}

Files == GoodFiles \cup BadFiles

\* AudioBuffer.numberOfChannels
NumberOfChannels(f) == IF f = "A" THEN 1 ELSE 2

\* AudioBuffer.sampleRate (samples per second)
SampleRateOf(f) == IF f = "A" THEN TicksPerSecond ELSE TicksPerSecond \div 2

\* AudioBuffer.length (samples per channel)
LengthOf(f) == CanvasWidth

\* AudioBuffer.duration = length / sampleRate, in ticks
Duration(f) == (LengthOf(f) * TicksPerSecond) \div SampleRateOf(f)

NaN == [nan |-> TRUE, num |-> 0]

Sample(k) == [nan |-> FALSE, num |-> k]

\* AudioBuffer.getChannelData(channel)[i]; an index outside the array reads
\* undefined, which a Float32Array stores as NaN
ChannelData(f, channel, i) ==
    IF i < 0 \/ i >= LengthOf(f)
    THEN NaN
    ELSE Sample(((7 * i + 3 * channel + (IF f = "A" THEN 0 ELSE 5))
                   % (2 * SampleScale + 3)) - (SampleScale + 1))

NoBuffer == [numberOfChannels |-> 0, sampleRate |-> 0, length |-> 0, data |-> <<>>]

NoPromise == [state |-> "none", blob |-> <<>>]

Mounted == audioBuffer # "none" /\ fileName # "none"

---------------------------------------------------------------------------
(* Selection controller *)

\* getTimeFromX: (x / canvas.width) * audioBuffer.duration
getTimeFromX(x) == (x * Duration(audioBuffer)) \div CanvasWidth

\* a hit test that leaves out the pixel at exactly the tolerance
NearHandleStrict(x, t) ==
    Abs(x * Duration(audioBuffer) - t * CanvasWidth)
        < Tolerance * Duration(audioBuffer)

\* Math.abs(x - (t / duration) * canvas.width) <= 10
NearHandle(x, t) ==
    Abs(x * Duration(audioBuffer) - t * CanvasWidth)
        <= Tolerance * Duration(audioBuffer)

\* Math.min(Math.max(0, time), trimEnd - 0.1)
DragStart(time, end) == Min2(Max2(0, time), end - MinRange)

\* Math.max(Math.min(duration, time), trimStart + 0.1)
DragEnd(time, start, duration) == Max2(Min2(duration, time), start + MinRange)

\* Number(value) for the value a NumberInput hands to onChange:
\* a number, or the empty string of a cleared field
NumberOf(value) == IF value.isString THEN 0 ELSE value.n

---------------------------------------------------------------------------
(* Container encoder *)

\* ToInt32 of a number followed by (n >> (8 * k)) & 0xff; every number the
\* encoder writes here lies within the 32-bit range, where ToInt32 keeps it
ByteOf(n, k) == (n \div (256 ^ k)) % 256

\* writeUint16: the bytes [value & 0xff, (value >> 8) & 0xff]
writeUint16(value) == <<ByteOf(value, 0), ByteOf(value, 1)>>

\* writeUint32: the four bytes of value, lowest first
writeUint32(value) ==
    <<ByteOf(value, 0), ByteOf(value, 1), ByteOf(value, 2), ByteOf(value, 3)>>

\* writeString: the char codes of "RIFF", "WAVE", "fmt " and "data"
RIFF == <<82, 73, 70, 70>>

WAVE == <<87, 65, 86, 69>>

FMT == <<102, 109, 116, 32>>

DATA == <<100, 97, 116, 97>>

\* buffer.length * buffer.numberOfChannels * 2 + 44
WavLength(buffer) == buffer.length * buffer.numberOfChannels * 2 + 44

\* a header whose byte rate leaves out the two bytes per sample
WavHeaderByteRate(buffer) ==
    RIFF \o writeUint32(WavLength(buffer) - 8) \o WAVE \o FMT
      \o writeUint32(16)
      \o writeUint16(1)
      \o writeUint16(buffer.numberOfChannels)
      \o writeUint32(buffer.sampleRate)
      \o writeUint32(buffer.sampleRate * buffer.numberOfChannels)
      \o writeUint16(buffer.numberOfChannels * 2)
      \o writeUint16(16)
      \o DATA \o writeUint32(WavLength(buffer) - 44)

\* the 44 header bytes, in the order lines 264-276 write them
WavHeader(buffer) ==
    RIFF \o writeUint32(WavLength(buffer) - 8) \o WAVE \o FMT
      \o writeUint32(16)
      \o writeUint16(1)
      \o writeUint16(buffer.numberOfChannels)
      \o writeUint32(buffer.sampleRate)
      \o writeUint32(buffer.sampleRate * buffer.numberOfChannels * 2)
      \o writeUint16(buffer.numberOfChannels * 2)
      \o writeUint16(16)
      \o DATA \o writeUint32(WavLength(buffer) - 44)

\* a quantization that scales both signs by 0x8000
SampleValueSymmetric(s) ==
    IF s.nan THEN 0
    ELSE LET c == Max2(-SampleScale, Min2(SampleScale, s.num))
         IN  IF c < 0 THEN -(((-c) * 32768) \div SampleScale)
                      ELSE (c * 32768) \div SampleScale

\* Math.max(-1, Math.min(1, s)), then s < 0 ? s * 0x8000 : s * 0x7fff, as
\* the integer that value & 0xff and value >> 8 see (ToInt32 truncates
\* towards zero and turns NaN into 0)
SampleValue(s) ==
    IF s.nan THEN 0
    ELSE LET c == Max2(-SampleScale, Min2(SampleScale, s.num))
         IN  IF c < 0 THEN -(((-c) * 32768) \div SampleScale)
                      ELSE (c * 32767) \div SampleScale

\* a sample loop that writes channel after channel instead of frame after
\* frame
WavDataPlanar(buffer) ==
    LET c == buffer.numberOfChannels
    IN  [j \in 1..(buffer.length * c * 2) |->
            LET word == (j - 1) \div 2
                channel == word \div buffer.length
                i == word % buffer.length
            IN  writeUint16(SampleValue(buffer.data[channel + 1][i + 1]))
                    [((j - 1) % 2) + 1]]

\* the sample loop: for each frame i, for each channel, writeUint16(value);
\* byte j (0-based) of the data chunk belongs to word j div 2
WavData(buffer) ==
    LET c == buffer.numberOfChannels
    IN  [j \in 1..(buffer.length * c * 2) |->
            LET word == (j - 1) \div 2
                i == word \div c
                channel == word % c
            IN  writeUint16(SampleValue(buffer.data[channel + 1][i + 1]))
                    [((j - 1) % 2) + 1]]

\* audioBufferToWav: the bytes of the Blob the promise resolves with
audioBufferToWav(buffer) == WavHeader(buffer) \o WavData(buffer)

---------------------------------------------------------------------------
(* Export orchestrator *)

\* Math.floor(t * sampleRate), t in ticks
SampleOffset(t, f) == (t * SampleRateOf(f)) \div TicksPerSecond

\* a frame count that takes the end offset as inclusive
FrameCountInclusive(start, end, f) ==
    SampleOffset(end, f) - SampleOffset(start, f) + 1

\* frameCount = endOffset - startOffset
FrameCount(start, end, f) == SampleOffset(end, f) - SampleOffset(start, f)

\* audioContext.createBuffer(channels, frameCount, sampleRate) throws for a
\* frame count that is zero or negative
CreateBufferThrows(frameCount) == frameCount <= 0

\* the copy loop of lines 214-220 over a fresh buffer
CopyRange(f, startOffset, frameCount) ==
    [numberOfChannels |-> NumberOfChannels(f),
     sampleRate |-> SampleRateOf(f),
     length |-> frameCount,
     data |-> [channel \in 1..NumberOfChannels(f) |->
                 [i \in 1..frameCount |->
                     ChannelData(f, channel - 1, (i - 1) + startOffset)]]]

---------------------------------------------------------------------------
(* Inputs *)

\* pointer-down happens on the canvas: its edges, the pixels around the
\* hit-test tolerance of a handle at either edge, and the middle
PointerDownXs ==
    {0, 1, Tolerance, Tolerance + 1, CanvasWidth \div 2,
     CanvasWidth - Tolerance - 1, CanvasWidth - 2, CanvasWidth - 1}

\* pointer-move is heard on the window, also left and right of the canvas
PointerMoveXs == PointerDownXs \cup {-1, CanvasWidth + 1}

\* typed numbers: below the buffer, inside it, beyond its end
NumericEntries == {-1, CanvasWidth \div 2, 2 * CanvasWidth + 1}

\* what a NumberInput hands to onChange: a typed number or "" (cleared field)
NumericValues ==
    {[isString |-> TRUE, n |-> 0]}
        \cup {[isString |-> FALSE, n |-> k] : k \in NumericEntries}

---------------------------------------------------------------------------
(* Waveform renderer *)

Finite(k) == [inf |-> 0, num |-> k]

PlusInfinity == [inf |-> 1, num |-> 0]

MinusInfinity == [inf |-> -1, num |-> 0]

\* Math.ceil(data.length / width)
StepOf(length, width) == (length + width - 1) \div width

\* data.slice(sliceStart, sliceEnd) of channel 0, as the set of its indices
SliceIndices(f, sliceStart, sliceEnd) ==
    Min2(sliceStart, LengthOf(f))..(Min2(sliceEnd, LengthOf(f)) - 1)

\* Math.max(...values): -Infinity when there is no value
MathMax(values) ==
    IF values = {} THEN MinusInfinity
    ELSE Finite(CHOOSE m \in values : \A v \in values : v <= m)

\* Math.min(...values): Infinity when there is no value
MathMin(values) ==
    IF values = {} THEN PlusInfinity
    ELSE Finite(CHOOSE m \in values : \A v \in values : m <= v)

\* the loop of lines 76-83: column i (1-based here) of the envelope
Envelope(f, width) ==
    LET step == StepOf(LengthOf(f), width)
    IN  [i \in 1..width |->
            LET sliceStart == (i - 1) * step
                sliceEnd == sliceStart + step
                values == {ChannelData(f, 0, k).num :
                              k \in SliceIndices(f, sliceStart, sliceEnd)}
            IN  [min |-> MathMin(values), max |-> MathMax(values)]]

---------------------------------------------------------------------------
(* Effects that run after a render *)

\* the identity of handleMouseMove: useCallback returns a new function
\* whenever one of its dependencies (line 181) has changed
MoveHandler == <<audioBuffer, activeHandle, trimStart, trimEnd, isDragging>>

\* the identity of handleMouseUp: useCallback with no dependencies
UpHandler == "handleMouseUp"

\* a cleanup that removes nothing
RemoveListenerLeak(listeners, handler) == listeners

\* window.removeEventListener(type, handler) in the effect's cleanup
RemoveListener(listeners, handler) == listeners \ {handler}

\* window.addEventListener(type, handler)
AddListener(listeners, handler) == listeners \cup {handler}

\* the effects of lines 104-123 and 189-197 after the step's render: the
\* canvas takes the container's width and is redrawn (the columns depend
\* on the buffer and the width only, so a redraw for any other change of
\* state draws the columns that are there); the listener effect
\* is cleaned up when the trimmer unmounts or handleMouseMove has changed,
\* and runs when the trimmer mounts or handleMouseMove has changed
RunEffects ==
    /\ clientWidth' = clientWidth
    /\ envelope' = IF ~Mounted' THEN <<>>
                   ELSE IF Mounted /\ audioBuffer' = audioBuffer THEN envelope
                   ELSE Envelope(audioBuffer', clientWidth)
    /\ LET changed == MoveHandler' # MoveHandler
           cleanup == Mounted /\ (~Mounted' \/ changed)
           run == Mounted' /\ (~Mounted \/ changed)
           moveLeft == IF cleanup THEN RemoveListener(moveListeners, MoveHandler)
                                  ELSE moveListeners
           upLeft == IF cleanup THEN RemoveListener(upListeners, UpHandler)
                                ELSE upListeners
       IN  /\ moveListeners' = IF run THEN AddListener(moveLeft, MoveHandler')
                                      ELSE moveLeft
           /\ upListeners' = IF run THEN AddListener(upLeft, UpHandler)
                                    ELSE upLeft

---------------------------------------------------------------------------
(* State after construction: the upload screen, no trimmer mounted *)

Init ==
    /\ audioBuffer = "none"
    /\ fileName = "none"
    /\ pending = {}
    /\ trimStart = 0
    /\ trimEnd = 0
    /\ isTrimming = FALSE
    /\ isDragging = FALSE
    /\ activeHandle = "none"
    /\ hoveredHandle = "none"
    /\ pc = "idle"
    /\ trimmedBuffer = NoBuffer
    /\ wavPromise = NoPromise
    /\ emitted = <<>>
    /\ lastOp = "init"
    /\ clientWidth = CanvasWidth
    /\ envelope = <<>>
    /\ moveListeners = {}
    /\ upListeners = {}

\* nothing of a handleTrim call is live, nothing was downloaded in this step
NoExportStep ==
    /\ pc' = "idle"
    /\ trimmedBuffer' = NoBuffer
    /\ wavPromise' = NoPromise
    /\ emitted' = <<>>

\* useState initialisers of AudioTrimmer, run when the component mounts
MountTrimmer(f) ==
    /\ trimStart' = 0
    /\ trimEnd' = Duration(f)
    /\ isTrimming' = FALSE
    /\ isDragging' = FALSE
    /\ activeHandle' = "none"
    /\ hoveredHandle' = "none"

\* the component is gone; its state no longer exists
UnmountTrimmer ==
    /\ trimStart' = 0
    /\ trimEnd' = 0
    /\ isTrimming' = FALSE
    /\ isDragging' = FALSE
    /\ activeHandle' = "none"
    /\ hoveredHandle' = "none"

---------------------------------------------------------------------------
(* AudioTrimmerApp *)

\* handleFileUpload up to its awaits: the FileButton exists only on the
\* upload screen; arrayBuffer() and decodeAudioData() are then pending
HandleFileUpload(file) ==
    /\ pc = "idle"
    /\ ~Mounted
    /\ pending' = pending \cup {file}
    /\ lastOp' = "upload"
    /\ NoExportStep
    /\ UNCHANGED <<audioBuffer, fileName, trimmerVars>>
    /\ RunEffects

\* handleFileUpload after decodeAudioData resolved: setAudioBuffer and
\* setFileName; a trimmer that is already mounted keeps its state
DecodeResolved(file) ==
    /\ pc = "idle"
    /\ file \in pending
    /\ file \in GoodFiles
    /\ pending' = pending \ {file}
    /\ audioBuffer' = file
    /\ fileName' = file
    /\ IF Mounted THEN UNCHANGED trimmerVars ELSE MountTrimmer(file)
    /\ lastOp' = "decoded"
    /\ NoExportStep
    /\ RunEffects

\* a rejection that still reaches setFileName
DecodeRejectedKeepsName(file) ==
    /\ pc = "idle"
    /\ file \in pending
    /\ file \in BadFiles
    /\ pending' = pending \ {file}
    /\ fileName' = file
    /\ lastOp' = "decodeFailed"
    /\ NoExportStep
    /\ UNCHANGED <<audioBuffer, trimmerVars>>
    /\ RunEffects

\* decodeAudioData rejected: handleFileUpload ends without setting anything
DecodeRejected(file) ==
    /\ pc = "idle"
    /\ file \in pending
    /\ file \in BadFiles
    /\ pending' = pending \ {file}
    /\ lastOp' = "decodeFailed"
    /\ NoExportStep
    /\ UNCHANGED <<audioBuffer, fileName, trimmerVars>>
    /\ RunEffects

\* handleReset (the trash icon of the mounted trimmer)
HandleReset ==
    /\ pc = "idle"
    /\ Mounted
    /\ audioBuffer' = "none"
    /\ fileName' = "none"
    /\ UnmountTrimmer
    /\ lastOp' = "reset"
    /\ NoExportStep
    /\ UNCHANGED pending
    /\ RunEffects

---------------------------------------------------------------------------
(* AudioTrimmer: pointer and numeric-entry handlers *)

HandleMouseDown(x) ==
    /\ pc = "idle"
    /\ Mounted
    /\ IF NearHandle(x, trimStart)
       THEN /\ activeHandle' = "start"
            /\ UNCHANGED <<trimStart, trimEnd>>
       ELSE IF NearHandle(x, trimEnd)
       THEN /\ activeHandle' = "end"
            /\ UNCHANGED <<trimStart, trimEnd>>
       ELSE /\ trimStart' = getTimeFromX(x)
            /\ trimEnd' = Duration(audioBuffer)
            /\ activeHandle' = "end"
    /\ isDragging' = TRUE
    /\ lastOp' = "mousedown"
    /\ NoExportStep
    /\ UNCHANGED <<audioBuffer, fileName, pending, isTrimming, hoveredHandle>>
    /\ RunEffects

\* the hover branch of handleMouseMove (lines 170-179), on the trimStart and
\* trimEnd of the render the handler closed over
HoverAt(x) ==
    IF NearHandle(x, trimStart) THEN "start"
    ELSE IF NearHandle(x, trimEnd) THEN "end"
    ELSE "none"

HandleMouseMove(x) ==
    /\ pc = "idle"
    /\ moveListeners # {}
    /\ IF ~Mounted \/ ~isDragging
       THEN UNCHANGED <<trimStart, trimEnd, hoveredHandle>>
       ELSE /\ IF activeHandle = "start"
               THEN /\ trimStart' = DragStart(getTimeFromX(x), trimEnd)
                    /\ UNCHANGED trimEnd
               ELSE IF activeHandle = "end"
               THEN /\ trimEnd' = DragEnd(getTimeFromX(x), trimStart,
                                          Duration(audioBuffer))
                    /\ UNCHANGED trimStart
               ELSE UNCHANGED <<trimStart, trimEnd>>
            /\ hoveredHandle' = HoverAt(x)
    /\ lastOp' = "mousemove"
    /\ NoExportStep
    /\ UNCHANGED <<audioBuffer, fileName, pending, isTrimming, isDragging,
                   activeHandle>>
    /\ RunEffects

\* a pointer-up that clears the handle but keeps the drag flag
HandleMouseUpKeepsDragging ==
    /\ pc = "idle"
    /\ upListeners # {}
    /\ IF Mounted
       THEN activeHandle' = "none"
       ELSE UNCHANGED activeHandle
    /\ lastOp' = "mouseup"
    /\ NoExportStep
    /\ UNCHANGED <<audioBuffer, fileName, pending, trimStart, trimEnd,
                   isTrimming, hoveredHandle, isDragging>>
    /\ RunEffects

\* a pointer-up that clears the drag flag but keeps the handle
HandleMouseUpKeepsHandle ==
    /\ pc = "idle"
    /\ upListeners # {}
    /\ IF Mounted
       THEN isDragging' = FALSE
       ELSE UNCHANGED isDragging
    /\ lastOp' = "mouseup"
    /\ NoExportStep
    /\ UNCHANGED <<audioBuffer, fileName, pending, trimStart, trimEnd,
                   isTrimming, hoveredHandle, activeHandle>>
    /\ RunEffects

\* handleMouseUp (lines 184-187), reached through the window listener
HandleMouseUp ==
    /\ pc = "idle"
    /\ upListeners # {}
    /\ IF Mounted
       THEN activeHandle' = "none" /\ isDragging' = FALSE
       ELSE UNCHANGED <<activeHandle, isDragging>>
    /\ lastOp' = "mouseup"
    /\ NoExportStep
    /\ UNCHANGED <<audioBuffer, fileName, pending, trimStart, trimEnd,
                   isTrimming, hoveredHandle>>
    /\ RunEffects

\* onChange of the Start NumberInput: setTrimStart(Number(value))
SetStart(value) ==
    /\ pc = "idle"
    /\ Mounted
    /\ trimStart' = NumberOf(value)
    /\ lastOp' = "setStart"
    /\ NoExportStep
    /\ UNCHANGED <<audioBuffer, fileName, pending, trimEnd, isTrimming,
                   isDragging, activeHandle, hoveredHandle>>
    /\ RunEffects

\* onChange of the End NumberInput: setTrimEnd(Number(value))
SetEnd(value) ==
    /\ pc = "idle"
    /\ Mounted
    /\ trimEnd' = NumberOf(value)
    /\ lastOp' = "setEnd"
    /\ NoExportStep
    /\ UNCHANGED <<audioBuffer, fileName, pending, trimStart, isTrimming,
                   isDragging, activeHandle, hoveredHandle>>
    /\ RunEffects

---------------------------------------------------------------------------
(* AudioTrimmer: export *)

\* a Save button that is never disabled
SaveAlwaysEnabled == TRUE

\* the Save button is rendered with disabled={isTrimming}
SaveEnabled == ~isTrimming

\* handleTrim from the click up to the await of line 222.  alloc says
\* whether the allocations succeed: createBuffer (line 212) or
\* new Uint8Array (line 236) may throw for lack of memory
HandleTrim(alloc) ==
    /\ pc = "idle"
    /\ Mounted
    /\ SaveEnabled
    /\ isTrimming' = TRUE
    /\ emitted' = <<>>
    /\ LET startOffset == SampleOffset(trimStart, audioBuffer)
           frameCount == FrameCount(trimStart, trimEnd, audioBuffer)
       IN  IF CreateBufferThrows(frameCount) \/ alloc = "createBufferFails"
           THEN /\ pc' = "idle"
                /\ trimmedBuffer' = NoBuffer
                /\ wavPromise' = NoPromise
                /\ lastOp' = "trimThrew"
           ELSE /\ pc' = "awaiting"
                /\ trimmedBuffer' = CopyRange(audioBuffer, startOffset, frameCount)
                /\ wavPromise' =
                      IF alloc = "arrayFails"
                      THEN [state |-> "rejected", blob |-> <<>>]
                      ELSE [state |-> "fulfilled",
                            blob |-> audioBufferToWav(trimmedBuffer')]
                /\ lastOp' = "trimAwait"
    /\ UNCHANGED <<audioBuffer, fileName, pending, trimStart, trimEnd,
                   isDragging, activeHandle, hoveredHandle>>
    /\ RunEffects

\* a resumption that also puts the selection back to the whole buffer
TrimResumeResetsSelection ==
    /\ pc = "awaiting"
    /\ pc' = "idle"
    /\ IF wavPromise.state = "fulfilled"
       THEN /\ emitted' = wavPromise.blob
            /\ isTrimming' = FALSE
            /\ lastOp' = "trimDone"
       ELSE /\ emitted' = <<>>
            /\ UNCHANGED isTrimming
            /\ lastOp' = "trimThrew"
    /\ trimmedBuffer' = NoBuffer
    /\ wavPromise' = NoPromise
    /\ trimStart' = 0
    /\ trimEnd' = Duration(audioBuffer)
    /\ UNCHANGED <<audioBuffer, fileName, pending,
                   isDragging, activeHandle, hoveredHandle>>
    /\ RunEffects

\* handleTrim after the await: the download and setIsTrimming(false), or
\* the rejection thrown out of the await
TrimResume ==
    /\ pc = "awaiting"
    /\ pc' = "idle"
    /\ IF wavPromise.state = "fulfilled"
       THEN /\ emitted' = wavPromise.blob
            /\ isTrimming' = FALSE
            /\ lastOp' = "trimDone"
       ELSE /\ emitted' = <<>>
            /\ UNCHANGED isTrimming
            /\ lastOp' = "trimThrew"
    /\ trimmedBuffer' = NoBuffer
    /\ wavPromise' = NoPromise
    /\ UNCHANGED <<audioBuffer, fileName, pending, trimStart, trimEnd,
                   isDragging, activeHandle, hoveredHandle>>
    /\ RunEffects

AllocOutcomes == {"ok", "createBufferFails", "arrayFails"}

---------------------------------------------------------------------------

Next ==
    \/ \E file \in Files : HandleFileUpload(file)
    \/ \E file \in Files : DecodeResolved(file)
    \/ \E file \in Files : DecodeRejected(file)
    \/ HandleReset
    \/ \E x \in PointerDownXs : HandleMouseDown(x)
    \/ \E x \in PointerMoveXs : HandleMouseMove(x)
    \/ HandleMouseUp
    \/ \E value \in NumericValues : SetStart(value)
    \/ \E value \in NumericValues : SetEnd(value)
    \/ \E alloc \in AllocOutcomes : HandleTrim(alloc)
    \/ TrimResume

Spec == Init /\ [][Next]_vars

\* The same program when the user picks one file at a time and types nothing
\* into the Start and End fields
NextPointer ==
    \/ (pending = {} /\ \E file \in Files : HandleFileUpload(file))
    \/ \E file \in Files : DecodeResolved(file)
    \/ \E file \in Files : DecodeRejected(file)
    \/ HandleReset
    \/ \E x \in PointerDownXs : HandleMouseDown(x)
    \/ \E x \in PointerMoveXs : HandleMouseMove(x)
    \/ HandleMouseUp
    \/ \E alloc \in AllocOutcomes : HandleTrim(alloc)
    \/ TrimResume

PointerSpec == Init /\ [][NextPointer]_vars

---------------------------------------------------------------------------
(* The renderer: upload, reset and a container of any width *)

\* widths of the container, below and above the number of samples
RenderWidths == 1..(2 * CanvasWidth)

\* resizeCanvas (lines 109-115), the window's resize listener: canvas.width
\* becomes containerRef.current.clientWidth and the waveform is drawn again
Resize(width) ==
    /\ pc = "idle"
    /\ clientWidth' = width
    /\ envelope' = IF Mounted THEN Envelope(audioBuffer, width) ELSE <<>>
    /\ lastOp' = "resize"
    /\ NoExportStep
    /\ UNCHANGED <<audioBuffer, fileName, pending, trimmerVars, moveListeners,
                   upListeners>>

NextRender ==
    \/ \E file \in Files : HandleFileUpload(file)
    \/ \E file \in Files : DecodeResolved(file)
    \/ \E file \in Files : DecodeRejected(file)
    \/ HandleReset
    \/ \E width \in RenderWidths : Resize(width)

RenderSpec == Init /\ [][NextRender]_vars

---------------------------------------------------------------------------
(* The encoder on its own: handleTrim stands at line 222 with a trimmed     *)
(* buffer drawn from EncBuffers, calls audioBufferToWav and resumes.        *)

EncMaxChannels == 2

EncMaxFrames == 4

EncSampleRates == {8000, 44100, 48000, 96000}

EncFrameCounts == (1..EncMaxFrames) \cup {1000}

EncBuffers ==
    {[numberOfChannels |-> c,
      sampleRate |-> r,
      length |-> n,
      data |-> [channel \in 1..c |->
                  [i \in 1..n |->
                      Sample(((7 * (i - 1) + 3 * (channel - 1))
                                % (2 * SampleScale + 3)) - (SampleScale + 1))]]] :
        c \in 1..EncMaxChannels, r \in EncSampleRates, n \in EncFrameCounts}

EncInit ==
    /\ audioBuffer = "none"
    /\ fileName = "none"
    /\ pending = {}
    /\ trimStart = 0
    /\ trimEnd = 0
    /\ isTrimming = TRUE
    /\ isDragging = FALSE
    /\ activeHandle = "none"
    /\ hoveredHandle = "none"
    /\ pc = "encoding"
    /\ trimmedBuffer \in EncBuffers
    /\ wavPromise = NoPromise
    /\ emitted = <<>>
    /\ lastOp = "init"
    /\ clientWidth = CanvasWidth
    /\ envelope = <<>>
    /\ moveListeners = {}
    /\ upListeners = {}

\* line 222: audioBufferToWav(trimmedBuffer) runs up to the await
EncodeStep ==
    /\ pc = "encoding"
    /\ pc' = "awaiting"
    /\ wavPromise' = [state |-> "fulfilled", blob |-> audioBufferToWav(trimmedBuffer)]
    /\ lastOp' = "trimAwait"
    /\ UNCHANGED <<audioBuffer, fileName, pending, trimmerVars, trimmedBuffer,
                   emitted>>
    /\ RunEffects

NextEnc == EncodeStep \/ TrimResume

EncSpec == EncInit /\ [][NextEnc]_vars

TypeOK ==
    /\ audioBuffer \in GoodFiles \cup {"none"}
    /\ fileName \in GoodFiles \cup {"none"}
    /\ pending \subseteq Files
    /\ trimStart \in Int
    /\ trimEnd \in Int
    /\ isTrimming \in BOOLEAN
    /\ isDragging \in BOOLEAN
    /\ activeHandle \in {"start", "end", "none"}
    /\ hoveredHandle \in {"start", "end", "none"}
    /\ pc \in {"idle", "encoding", "awaiting"}
    /\ clientWidth \in Nat \ {0}
    /\ Len(envelope) \in {0, clientWidth}

---------------------------------------------------------------------------
(* Properties *)

PointerOrEntryOps == {"mousedown", "mousemove", "mouseup", "setStart", "setEnd"}

\* C1: after buffer load and any sequence of pointer-down, pointer-move,
\* pointer-up and numeric entry, trimEnd - trimStart >= 0.1 s (MinRange).
C1_MinimumRange ==
    (Mounted /\ lastOp \in PointerOrEntryOps) => trimEnd - trimStart >= MinRange

\* C2: after buffer load and any sequence of pointer-down, pointer-move,
\* pointer-up and numeric entry, 0 <= trimStart < trimEnd <= duration.
C2_InsideBuffer ==
    (Mounted /\ lastOp \in PointerOrEntryOps) =>
        /\ 0 <= trimStart
        /\ trimStart < trimEnd
        /\ trimEnd <= Duration(audioBuffer)

\* C3: while the busy flag isTrimming is set, a further export trigger is
\* rejected: no step starts a second extraction or encoding, the only
\* download is the one of the export in flight, and nothing is queued (an
\* idle trimmer with the flag set emits nothing and starts nothing).
C3_SingleExport ==
    [][isTrimming =>
         /\ lastOp' # "trimAwait"
         /\ (pc = "idle" => /\ pc' = "idle"
                            /\ emitted' = <<>>
                            /\ lastOp' # "trimThrew")
         /\ (pc = "awaiting" => /\ pc' = "idle"
                                /\ lastOp' \in {"trimDone", "trimThrew"})]_vars

C3_Witness ==
    /\ Mounted
    /\ isTrimming
    /\ pc = "idle"
    /\ lastOp \in PointerOrEntryOps

\* C4: when an export fails after the busy flag was set, the flag is
\* cleared again, no artifact is emitted and a later trigger is accepted.
C4_BusyClearedOnFailure ==
    lastOp = "trimThrew" => (~isTrimming /\ emitted = <<>> /\ SaveEnabled)

\* C5: an export triggered with a selection whose frame count
\* floor(trimEnd * rate) - floor(trimStart * rate) is <= 0 ends in an error
\* and emits no artifact; every emitted artifact is longer than its header.
C5_DegenerateRangeFails ==
    [][/\ (/\ Mounted
           /\ ~isTrimming
           /\ isTrimming'
           /\ ((trimEnd * SampleRateOf(audioBuffer)) \div TicksPerSecond)
                - ((trimStart * SampleRateOf(audioBuffer)) \div TicksPerSecond) <= 0)
          => (lastOp' = "trimThrew" /\ pc' = "idle" /\ emitted' = <<>>)
       /\ (emitted' # <<>> => Len(emitted') > 44)]_vars

C5_Witness ==
    /\ Mounted
    /\ lastOp = "trimThrew"
    /\ isTrimming
    /\ ((trimEnd * SampleRateOf(audioBuffer)) \div TicksPerSecond)
         <= ((trimStart * SampleRateOf(audioBuffer)) \div TicksPerSecond)

\* C6: pointer-down at x: within 10 px of startX the start handle becomes
\* active and the selection is unchanged (start wins); else within 10 px of
\* endX the end handle becomes active and the selection is unchanged; else
\* the selection becomes [time(x), duration] with the end handle active.
\* After every pointer-down exactly one handle is active.
C6_PointerDown ==
    [][\A x \in PointerDownXs :
         HandleMouseDown(x) =>
            LET d == Duration(audioBuffer)
                nearStart == Abs(x * d - trimStart * CanvasWidth) <= 10 * d
                nearEnd == Abs(x * d - trimEnd * CanvasWidth) <= 10 * d
            IN  /\ activeHandle' \in {"start", "end"}
                /\ nearStart =>
                     /\ activeHandle' = "start"
                     /\ trimStart' = trimStart /\ trimEnd' = trimEnd
                /\ (~nearStart /\ nearEnd) =>
                     /\ activeHandle' = "end"
                     /\ trimStart' = trimStart /\ trimEnd' = trimEnd
                /\ (~nearStart /\ ~nearEnd) =>
                     /\ activeHandle' = "end"
                     /\ trimStart' * CanvasWidth = x * d
                     /\ trimEnd' = d]_vars

C6_Witness ==
    /\ Mounted
    /\ lastOp = "mousedown"
    /\ activeHandle = "end"
    /\ isDragging
    /\ trimStart > 0
    /\ trimEnd = Duration(audioBuffer)
    /\ (trimEnd - trimStart) * CanvasWidth > 10 * Duration(audioBuffer)

\* C7: numeric entry of v as start sets trimStart = clamp(v, 0, trimEnd - 0.1)
\* and entry of v as end sets trimEnd = clamp(v, trimStart + 0.1, duration),
\* the same result as dragging that handle to time v.
C7_EntryClamped ==
    [][\A value \in NumericValues :
         /\ SetStart(value) =>
              trimStart' = Min2(Max2(0, NumberOf(value)), trimEnd - MinRange)
         /\ SetEnd(value) =>
              trimEnd' = Max2(Min2(Duration(audioBuffer), NumberOf(value)),
                              trimStart + MinRange)]_vars

\* C8: every pointer-move, dragging or not, recomputes hoveredHandle:
\* "start" within 10 px of startX, else "end" within 10 px of endX, else none.
C8_HoverAlways ==
    [][\A x \in PointerMoveXs :
         HandleMouseMove(x) =>
            LET d == Duration(audioBuffer)
                nearStart == Abs(x * d - trimStart * CanvasWidth) <= 10 * d
                nearEnd == Abs(x * d - trimEnd * CanvasWidth) <= 10 * d
            IN  hoveredHandle' = IF nearStart THEN "start"
                                 ELSE IF nearEnd THEN "end" ELSE "none"]_vars

\* C9: a file upload that completes leaves the selection at [0, duration of
\* the new buffer], no active handle, no hovered handle, no drag in progress.
C9_UploadResets ==
    lastOp = "decoded" =>
        /\ trimStart = 0
        /\ trimEnd = Duration(audioBuffer)
        /\ activeHandle = "none"
        /\ hoveredHandle = "none"
        /\ ~isDragging

\* little-endian reading of the 2 or 4 bytes that follow the first off bytes
U16(b, off) == b[off + 1] + 256 * b[off + 2]

U32(b, off) ==
    b[off + 1] + 256 * b[off + 2] + 65536 * b[off + 3] + 16777216 * b[off + 4]

\* C10: for a buffer of c channels, rate r and n > 0 frames the encoder
\* output has 44 + n*c*2 bytes and its header reads, little-endian: chunk
\* size = length - 8, format tag 1, channel count c, sample rate r, byte
\* rate r*c*2, block align c*2, 16 bits per sample, data size = length - 44
\* (c = 2, r = 44100, n = 1000: length 4044, byte rate 176400, align 4).
C10_Header ==
    wavPromise.state = "fulfilled" =>
        LET b == wavPromise.blob
            c == trimmedBuffer.numberOfChannels
            r == trimmedBuffer.sampleRate
            n == trimmedBuffer.length
        IN  /\ Len(b) = 44 + n * c * 2
            /\ \A j \in 1..44 : b[j] \in 0..255
            /\ U32(b, 4) = Len(b) - 8
            /\ U16(b, 20) = 1
            /\ U16(b, 22) = c
            /\ U32(b, 24) = r
            /\ U32(b, 28) = r * c * 2
            /\ U16(b, 32) = c * 2
            /\ U16(b, 34) = 16
            /\ U32(b, 40) = Len(b) - 44
            /\ (c = 2 /\ r = 44100 /\ n = 1000) =>
                   /\ Len(b) = 4044
                   /\ U32(b, 28) = 176400
                   /\ U16(b, 32) = 4

C10_Witness ==
    /\ wavPromise.state = "fulfilled"
    /\ trimmedBuffer.numberOfChannels = 2
    /\ trimmedBuffer.sampleRate = 44100
    /\ trimmedBuffer.length = 1000
    /\ Len(wavPromise.blob) = 4044

\* the two bytes after the first off bytes, read as a little-endian
\* two's-complement 16-bit word
S16(b, off) ==
    LET u == b[off + 1] + 256 * b[off + 2]
    IN  IF u >= 32768 THEN u - 65536 ELSE u

\* the word of the blob that holds frame i of channel ch (both 1-based) of
\* the trimmed buffer, and the clamped numerator of the sample it encodes
WordOf(i, ch) ==
    S16(wavPromise.blob,
        44 + 2 * ((i - 1) * trimmedBuffer.numberOfChannels + (ch - 1)))

ClampedOf(i, ch) ==
    Max2(-SampleScale, Min2(SampleScale, trimmedBuffer.data[ch][i].num))

\* the word w is the sample c / SampleScale scaled by 32768 (c < 0) or
\* 32767 (c >= 0) and cut to an integer, within the 16-bit range
QuantizedAs(c, w) ==
    /\ w \in (-32768)..32767
    /\ c < 0 => (w * SampleScale >= c * 32768 /\ w * SampleScale - c * 32768 < SampleScale)
    /\ c >= 0 => (w * SampleScale <= c * 32767 /\ c * 32767 - w * SampleScale < SampleScale)
    /\ c = -SampleScale => w = -32768
    /\ c = 0 => w = 0
    /\ c = SampleScale => w = 32767

\* C11 (as stated): every sample is clamped to [-1, 1], quantized as
\* s < 0 ? s*32768 : s*32767 into a little-endian two's-complement word in
\* [-32768, 32767] (-1 -> -32768, 0 -> 0, 1 -> 32767), and the word decoded
\* (w / 32768) differs from the clamped sample by at most 1/32768.
C11_QuantizationError ==
    wavPromise.state = "fulfilled" =>
        \A ch \in 1..trimmedBuffer.numberOfChannels :
            \A i \in 1..trimmedBuffer.length :
                (~trimmedBuffer.data[ch][i].nan) =>
                    /\ QuantizedAs(ClampedOf(i, ch), WordOf(i, ch))
                    /\ Abs(ClampedOf(i, ch) * 32768 - WordOf(i, ch) * SampleScale)
                          <= SampleScale

\* C11 (amended): as above, but the decoded word differs from the clamped
\* sample by less than 2/32768.
C11_QuantizationWithinTwo ==
    wavPromise.state = "fulfilled" =>
        \A ch \in 1..trimmedBuffer.numberOfChannels :
            \A i \in 1..trimmedBuffer.length :
                (~trimmedBuffer.data[ch][i].nan) =>
                    /\ QuantizedAs(ClampedOf(i, ch), WordOf(i, ch))
                    /\ Abs(ClampedOf(i, ch) * 32768 - WordOf(i, ch) * SampleScale)
                          < 2 * SampleScale

C11_Witness ==
    /\ wavPromise.state = "fulfilled"
    /\ trimmedBuffer.length = 1000
    /\ \E i \in 1..trimmedBuffer.length :
          /\ trimmedBuffer.data[1][i].num = -SampleScale
          /\ WordOf(i, 1) = -32768
    /\ \E i \in 1..trimmedBuffer.length :
          /\ trimmedBuffer.data[1][i].num > SampleScale
          /\ WordOf(i, 1) = 32767
    /\ \E i \in 1..trimmedBuffer.length :
          /\ trimmedBuffer.data[1][i].num \in 1..(SampleScale - 1)
          /\ WordOf(i, 1) > 0

\* C12: a rejected decode loads nothing: audioBuffer and fileName keep their
\* values (null on the upload screen) and are never set one without the other,
\* the application stays on the upload screen, and from there a valid file can
\* still be uploaded and its decode mounts the trimmer on that file.
C12_DecodeRejection ==
    /\ []((audioBuffer = "none") <=> (fileName = "none"))
    /\ []((lastOp = "decodeFailed" /\ audioBuffer = "none") =>
            /\ ~Mounted
            /\ \A f \in GoodFiles : ENABLED HandleFileUpload(f))
    /\ [](\A f \in GoodFiles : (f \in pending /\ pc = "idle") => ENABLED DecodeResolved(f))
    /\ [][/\ lastOp' = "decodeFailed" =>
                (audioBuffer' = audioBuffer /\ fileName' = fileName)
          /\ lastOp' = "decoded" =>
                (Mounted' /\ audioBuffer' \in GoodFiles /\ fileName' = audioBuffer')]_vars

C12_Witness ==
    /\ lastOp = "decodeFailed"
    /\ audioBuffer = "none"
    /\ fileName = "none"
    /\ pending = {}

\* t limited to the interval [lo, hi]
Clamp(t, lo, hi) == Max2(lo, Min2(t, hi))

\* C13: a drag update moves only the active edge: with the start handle
\* active a pointer-move at time t sets trimStart to clamp(t, 0, trimEnd - 0.1)
\* and keeps trimEnd; with the end handle active it sets trimEnd to
\* clamp(t, trimStart + 0.1, duration) and keeps trimStart; the new edge lies
\* inside that interval for every pointer position, also outside the canvas.
C13_DragClamp ==
    [][\A x \in PointerMoveXs :
          (HandleMouseMove(x) /\ Mounted /\ isDragging) =>
              /\ activeHandle = "start" =>
                    /\ trimEnd' = trimEnd
                    /\ trimStart' = Clamp(getTimeFromX(x), 0, trimEnd - MinRange)
                    /\ 0 <= trimStart'
                    /\ trimStart' <= trimEnd - MinRange
              /\ activeHandle = "end" =>
                    /\ trimStart' = trimStart
                    /\ trimEnd' = Clamp(getTimeFromX(x), trimStart + MinRange,
                                        Duration(audioBuffer))
                    /\ trimStart + MinRange <= trimEnd'
                    /\ trimEnd' <= Duration(audioBuffer)]_vars

\* C14: a pointer-up leaves no handle active and does not touch the
\* selection, whether or not a handle was active; while no handle is active
\* no pointer-move changes trimStart or trimEnd; and only a pointer-down makes
\* a handle active again.
C14_PointerUp ==
    [][/\ HandleMouseUp =>
            (activeHandle' = "none" /\ trimStart' = trimStart /\ trimEnd' = trimEnd)
       /\ (activeHandle = "none" /\ lastOp' = "mousemove") =>
            (trimStart' = trimStart /\ trimEnd' = trimEnd /\ activeHandle' = "none")
       /\ (activeHandle = "none" /\ activeHandle' # "none") =>
            lastOp' = "mousedown"]_vars

C14_Witness ==
    /\ Mounted
    /\ lastOp = "mousemove"
    /\ activeHandle = "none"
    /\ trimStart > 0
    /\ trimEnd < Duration(audioBuffer)

\* C15: with startOffset = floor(trimStart * sampleRate) and frameCount =
\* floor(trimEnd * sampleRate) - startOffset, the data chunk of the exported
\* file holds exactly frameCount frames, and the 16-bit word at data position
\* frame * channelCount + channel is the quantization of source channel
\* `channel` at sample index frame + startOffset, for every frame and channel
\* (stated for the sample indices that exist in the source).
C15_Extraction ==
    (pc = "awaiting" /\ wavPromise.state = "fulfilled") =>
        LET c == NumberOfChannels(audioBuffer)
            startOffset == SampleOffset(trimStart, audioBuffer)
            frameCount == SampleOffset(trimEnd, audioBuffer) - startOffset
        IN  /\ Len(wavPromise.blob) = 44 + frameCount * c * 2
            /\ U32(wavPromise.blob, 40) = frameCount * c * 2
            /\ \A frame \in 0..(frameCount - 1) :
                  \A channel \in 0..(c - 1) :
                      LET s == ChannelData(audioBuffer, channel, frame + startOffset)
                      IN  (~s.nan) =>
                              QuantizedAs(Max2(-SampleScale, Min2(SampleScale, s.num)),
                                          S16(wavPromise.blob,
                                              44 + 2 * (frame * c + channel)))

C15_Witness ==
    /\ pc = "awaiting"
    /\ wavPromise.state = "fulfilled"
    /\ audioBuffer = "B"
    /\ SampleOffset(trimStart, audioBuffer) > 0
    /\ trimEnd <= Duration(audioBuffer)
    /\ trimmedBuffer.length >= 3
    /\ Len(wavPromise.blob) = 44 + trimmedBuffer.length * 4

\* C16: for every pixel column i in [0, W) the envelope is the (min, max) of
\* the channel-0 samples with index in [i * step, min((i + 1) * step,
\* sampleCount)), step = ceil(sampleCount / W); a column whose index range is
\* empty has min = max = 0, never an infinite extent.
C16_Envelope ==
    Mounted =>
        /\ Len(envelope) = clientWidth
        /\ \A i \in 0..(clientWidth - 1) :
              LET sampleCount == LengthOf(audioBuffer)
                  step == (sampleCount + clientWidth - 1) \div clientWidth
                  lo == i * step
                  hi == Min2((i + 1) * step, sampleCount)
                  values == {ChannelData(audioBuffer, 0, k).num : k \in lo..(hi - 1)}
              IN  IF lo >= hi
                  THEN envelope[i + 1] = [min |-> Finite(0), max |-> Finite(0)]
                  ELSE /\ \E m \in values :
                             /\ \A v \in values : m <= v
                             /\ envelope[i + 1].min = Finite(m)
                       /\ \E m \in values :
                             /\ \A v \in values : v <= m
                             /\ envelope[i + 1].max = Finite(m)

\* C17: while the trimmer is mounted, whatever was re-rendered and
\* re-registered, exactly one pointer-move and one pointer-up listener are
\* registered, the pointer-move one being the handler of the latest state, and
\* a drag is tracked at pointer positions outside the canvas; after teardown
\* none is registered and no pointer event can change the state.
C17_ListenerLifecycle ==
    /\ Mounted =>
          /\ moveListeners = {MoveHandler}
          /\ upListeners = {UpHandler}
          /\ Cardinality(moveListeners) = 1
          /\ Cardinality(upListeners) = 1
          /\ (pc = "idle" /\ isDragging) =>
                (ENABLED HandleMouseMove(-1) /\ ENABLED HandleMouseMove(CanvasWidth + 1))
    /\ ~Mounted =>
          /\ moveListeners = {}
          /\ upListeners = {}
          /\ ~ENABLED HandleMouseUp
          /\ \A x \in PointerMoveXs : ~ENABLED HandleMouseMove(x)
          /\ \A x \in PointerDownXs : ~ENABLED HandleMouseDown(x)

C17_Witness ==
    /\ Mounted
    /\ lastOp = "mousemove"
    /\ isDragging
    /\ activeHandle = "start"
    /\ trimStart > 0
    /\ moveListeners = {<<audioBuffer, "start", trimStart, trimEnd, TRUE>>}
    /\ upListeners = {UpHandler}

\* C18: every step of an export, whether it ends in a download or in a
\* failure, leaves trimStart, trimEnd, the active and hovered handle, the drag
\* flag and the source buffer as they were; of the component's state only the
\* busy flag changes.
C18_ExportFrame ==
    [][((\E alloc \in AllocOutcomes : HandleTrim(alloc)) \/ TrimResume) =>
          /\ trimStart' = trimStart
          /\ trimEnd' = trimEnd
          /\ activeHandle' = activeHandle
          /\ hoveredHandle' = hoveredHandle
          /\ isDragging' = isDragging
          /\ audioBuffer' = audioBuffer
          /\ fileName' = fileName
          /\ \A channel \in 0..(NumberOfChannels(audioBuffer) - 1) :
                \A i \in 0..(LengthOf(audioBuffer) - 1) :
                    ChannelData(audioBuffer', channel, i)
                        = ChannelData(audioBuffer, channel, i)]_vars

C18_Witness ==
    /\ lastOp = "trimDone"
    /\ Len(emitted) > 44
    /\ trimStart > 0
    /\ trimEnd < Duration(audioBuffer)
    /\ hoveredHandle # "none"
    /\ ~isTrimming

\* C19: in every reachable state the drag flag and the active handle agree:
\* isDragging is true exactly when activeHandle is "start" or "end", whatever
\* pointer-down, pointer-move, pointer-up, numeric entry or export came before.
C19_DragFlagAgrees ==
    /\ isDragging <=> activeHandle \in {"start", "end"}
    /\ ~Mounted => (~isDragging /\ activeHandle = "none")

C19_Witness ==
    /\ Mounted
    /\ isDragging
    /\ activeHandle = "start"
    /\ lastOp = "trimDone"

\* C20: for every selection that pointer and numeric-entry events can
\* produce, an export reads only samples that exist: 0 <= floor(trimStart *
\* sampleRate) and floor(trimEnd * sampleRate) <= samples per channel, so every
\* index frame + startOffset read by the copy loop is in [0, samples per
\* channel) and no copied sample is undefined.
C20_ReadsInsideBuffer ==
    (pc = "awaiting" /\ lastOp = "trimAwait") =>
        /\ 0 <= SampleOffset(trimStart, audioBuffer)
        /\ SampleOffset(trimEnd, audioBuffer) <= LengthOf(audioBuffer)
        /\ \A channel \in 1..trimmedBuffer.numberOfChannels :
              \A i \in 1..trimmedBuffer.length :
                  ~trimmedBuffer.data[channel][i].nan

=============================================================================
